---- MODULE Spec2Model ----
(***************************************************************************)
(* Model of shanecglass/agentic-sql-gen: src/main.py and src/util.py.      *)
(*                                                                         *)
(* Three state machines share the local file tree:                         *)
(*   Spec     get_table_schemas (the schema-store refresh), stepped at its *)
(*            remote calls and file operations, with the remote catalog,   *)
(*            the clock and process crashes as the environment;            *)
(*   SpecGen  generate_sql (extract_sql, then the draft -> revise          *)
(*            pipeline) together with direct calls of util.query_dryrun    *)
(*            and util.query_check;                                        *)
(*   SpecTemplates  direct calls of the three prompt templates of util.py, *)
(*            with query_dryrun and the tree walk of generate_sql changing *)
(*            the state between them.                                      *)
(* magika.identify_path is taken to return a group for every file.         *)
(*                                                                         *)
(* Names are bound as the source intends them: Path is pathlib.Path and    *)
(* datetime.now(tz=timezone.utc) reads the UTC wall clock.                 *)
(* Time is a single integer clock shared by the catalog and the local      *)
(* host.  A round trip of bf_call takes time, so the clock read after it   *)
(* is strictly later than the clock before it; events that are not         *)
(* ordered by a round trip may carry the same timestamp.                   *)
(***************************************************************************)
EXTENDS Integers, Sequences, FiniteSets, TLC

\* ---------------------------------------------------------------- bounds
\* The clock stops at MaxTime, the catalog is changed at most MaxChanges
\* times and get_table_schemas is called at most MaxRefreshes times.
MaxTime == 5
MaxChanges == 2
MaxRefreshes == 3

\* ------------------------------------------------------- catalog fixture
\* The project's datasets and tables, in the order the catalog enumerates
\* them (client.list_datasets, client.list_tables): a dataset of two tables
\* followed by a dataset without tables.
DatasetOrder == <<"sales", "ops">>

TableOrder(d) == IF d = "sales" THEN <<"orders", "users">> ELSE <<>>

Datasets == {DatasetOrder[i] : i \in 1..Len(DatasetOrder)}

TablesOf(d) == {TableOrder(d)[i] : i \in 1..Len(TableOrder(d))}

AllTables == UNION {{<<d, t>> : t \in TablesOf(d)} : d \in Datasets}

\* ------------------------------------------------------------ file values
FileAbsent == [kind |-> "absent", v |-> 0]

\* A file opened with mode "w"/"wb" whose content has not reached the disk.
FileTruncated == [kind |-> "truncated", v |-> 0]

\* json.dumps(table_schema, indent=4) of the column list at catalog version v.
JsonDoc(v) == [kind |-> "json", v |-> v]

\* pickle.dump(last_updated_time) of timestamp ts.
Pickled(ts) == [kind |-> "pickle", v |-> ts]

VARIABLES
    now,                  \* the UTC clock
    remoteModified,       \* table.modified of every catalog table
    remoteSchema,         \* version of the column schema of every table
    changes,              \* catalog changes made so far
    folder,               \* dataset folders that exist under schema_dir
    file,                 \* <dataset>/<table>.json
    lastUpdated,          \* <dataset>/last_updated.pkl
    pc,                   \* position of get_table_schemas
    di, ti,               \* indexes of the dataset and table loops
    table_last_modified,  \* local of get_table_schemas
    last_local_update,    \* local of get_table_schemas
    table_schema,         \* local of get_table_schemas
    raisedAt,             \* the call that raised, when pc = "raised"
    runs,                 \* refreshes started
    startTime,            \* history: clock when the running refresh began
    wmAtStart,            \* history: lastUpdated when the refresh began
    fileAtStart,          \* history: file when the refresh began
    due,                  \* history: tables seen changed/absent in this run
    fetched,              \* history: tables this run fetched the columns of
    written,              \* history: tables whose file this run rewrote
    quiet,                \* history: no catalog change since refresh start
    secondRun,            \* history: the previous refresh returned normally
                          \*          and the catalog has not changed since
                          \*          that refresh began
    dry_run_validate,     \* util.dry_run_validate, the configuration flag
    erdFile,              \* <local_dir>/src/erd_output.json
    snapshot,             \* <schema_dir>/bq_schema_project.pkl
    gpc,                  \* position of generate_sql
    request,              \* argument of generate_sql
    bq_schema,            \* local of generate_sql
    erd_json,             \* local of generate_sql
    dataset_list,         \* local of generate_sql
    generated_query,      \* local of generate_sql
    output,               \* local of generate_sql, returned at the end
    gRaised,              \* the exception generate_sql raised
    genRuns,              \* calls of generate_sql so far
    modelCalls,           \* history: prompts generate_sql sent to the model
    dryrunCalls,          \* history: queries generate_sql sent to a dry run
    stages,               \* history: stages generate_sql has entered
    lastDryrun,           \* the last direct call of util.query_dryrun
    lastCheck,            \* the last direct call of util.query_check
    strays,               \* files under schema_dir that get_table_schemas
                          \* did not write
    lastExtract,          \* the last run of extract_sql
    tplLog                \* the direct calls of the templates of util.py:
                          \* function, arguments, result, and what the call
                          \* could have seen of the state

refreshVars == <<now, remoteModified, remoteSchema, changes, folder, file,
                 lastUpdated, pc, di, ti, table_last_modified,
                 last_local_update, table_schema, raisedAt, runs, startTime,
                 wmAtStart, fileAtStart, due, fetched, written, quiet,
                 secondRun>>

genVars == <<dry_run_validate, erdFile, snapshot, gpc, request, bq_schema,
             erd_json, dataset_list, generated_query, output, gRaised,
             genRuns, modelCalls, dryrunCalls, stages, lastDryrun, lastCheck,
             strays, lastExtract, tplLog>>

vars == <<refreshVars, genVars>>

catalogVars == <<remoteModified, remoteSchema, changes>>

diskVars == <<folder, file, lastUpdated>>

\* The locals of one call of get_table_schemas.
frameVars == <<di, ti, table_last_modified, last_local_update, table_schema>>

\* What the history records of the call that is running or has returned.
startLog == <<startTime, wmAtStart, fileAtStart, secondRun>>

runLogVars == <<startLog, due, fetched, written>>

\* -------------------------------------------------------------- helpers
CurDataset == DatasetOrder[di]

CurTable == <<CurDataset, TableOrder(CurDataset)[ti]>>

Running == pc \notin {"idle", "done", "raised", "crashed"}

\* Mutant of Unchanged: the comparison the wrong way round.
UnchangedReversed(modified, watermark, exists) == modified > watermark /\ exists

\* main.py:96  the test that skips a table as unchanged
Unchanged(modified, watermark, exists) == modified < watermark /\ exists

\* Mutant of LastUpdatedTime: a clock value read before the fetch, when
\* the refresh began.
LastUpdatedTimeStale == startTime

\* main.py:110-112  the timestamp stored in last_updated.pkl
LastUpdatedTime == now

\* main.py:90-95  the watermark a table is compared with: the unpickled
\* last_updated.pkl, or the current time when the file does not exist
LastLocalUpdate(d) ==
    IF lastUpdated[d].kind = "pickle" THEN lastUpdated[d].v ELSE now

\* The locals are gone once the call has returned, raised or died.
DropFrame ==
    /\ di' = 1
    /\ ti' = 1
    /\ table_last_modified' = 0
    /\ last_local_update' = 0
    /\ table_schema' = 0

\* The next iteration assigns the per-table locals before it reads them.
ClearTableLocals ==
    /\ table_last_modified' = 0
    /\ last_local_update' = 0
    /\ table_schema' = 0

\* main.py:67  the end of the table loop of a dataset: the next dataset, or
\* the return after the last one
NextDataset ==
    /\ ClearTableLocals
    /\ IF di < Len(DatasetOrder)
       THEN /\ pc' = "get_dataset"
            /\ di' = di + 1
            /\ ti' = 1
       ELSE /\ pc' = "done"
            /\ di' = 1
            /\ ti' = 1

\* main.py:79, 99  the continue of the table loop and the end of its body:
\* the next table of the dataset, or the end of the loop
Advance ==
    IF ti < Len(TableOrder(CurDataset))
    THEN /\ ClearTableLocals
         /\ pc' = "get_table"
         /\ ti' = ti + 1
         /\ UNCHANGED di
    ELSE NextDataset

\* No try/except surrounds any call of get_table_schemas: an exception of a
\* collaborator ends the call and reaches the caller.
Raise(where) ==
    /\ pc' = "raised"
    /\ raisedAt' = where
    /\ DropFrame

\* The run log is kept for a call that is running or has returned.
DropRunLog ==
    /\ startTime' = 0
    /\ wmAtStart' = [d \in Datasets |-> FileAbsent]
    /\ fileAtStart' = [x \in AllTables |-> FileAbsent]
    /\ secondRun' = FALSE
    /\ due' = {}
    /\ fetched' = {}
    /\ written' = {}

\* ---------------------------------------------------------- values
\* Python's None and an exception object carrying a message.
None == [kind |-> "None", msg |-> ""]

Exc(m) == [kind |-> "exception", msg |-> m]

\* erd_output.json: not there, not parseable, or the ERD of version v.
ErdAbsent == [kind |-> "absent", v |-> 0]

ErdMalformed == [kind |-> "malformed", v |-> 0]

ErdJson(v) == [kind |-> "json", v |-> v]

\* The state before get_table_schemas and generate_sql were ever called.
GenIdle ==
    /\ snapshot = [exists |-> FALSE, map |-> <<>>]
    /\ gpc = "idle"
    /\ request = ""
    /\ bq_schema = <<>>
    /\ erd_json = 0
    /\ dataset_list = <<>>
    /\ generated_query = ""
    /\ output = <<>>
    /\ gRaised = "none"
    /\ genRuns = 0
    /\ modelCalls = <<>>
    /\ dryrunCalls = <<>>
    /\ stages = <<>>
    /\ lastDryrun = [called |-> FALSE, query |-> "", raised |-> None,
                     result |-> <<None, FALSE>>]
    /\ lastCheck = [called |-> FALSE, query |-> "", exception |-> None,
                    flag |-> FALSE, prompt |-> <<>>]
    /\ lastExtract = [called |-> FALSE, strayFirst |-> FALSE,
                      raised |-> "none", result |-> <<>>]
    /\ tplLog = <<>>

RefreshIdle ==
    /\ remoteModified = [x \in AllTables |-> 0]
    /\ remoteSchema = [x \in AllTables |-> 1]
    /\ changes = 0
    /\ pc = "idle"
    /\ di = 1
    /\ ti = 1
    /\ table_last_modified = 0
    /\ last_local_update = 0
    /\ table_schema = 0
    /\ raisedAt = "none"
    /\ runs = 0
    /\ startTime = 0
    /\ wmAtStart = [d \in Datasets |-> FileAbsent]
    /\ fileAtStart = [x \in AllTables |-> FileAbsent]
    /\ due = {}
    /\ fetched = {}
    /\ written = {}
    /\ quiet = FALSE
    /\ secondRun = FALSE

\* ------------------------------------------------------------------ Init
Init ==
    /\ RefreshIdle
    /\ GenIdle
    /\ now = 1
    /\ folder = {}
    /\ file = [x \in AllTables |-> FileAbsent]
    /\ lastUpdated = [d \in Datasets |-> FileAbsent]
    /\ erdFile = ErdAbsent
    /\ dry_run_validate = FALSE
    /\ strays = {}

\* ----------------------------------------------------------- environment
\* Time passes.
Tick ==
    /\ now < MaxTime
    /\ now' = now + 1
    /\ UNCHANGED <<catalogVars, diskVars, pc, frameVars, raisedAt, runs,
                   runLogVars, quiet>>
    /\ UNCHANGED genVars

\* Another user of the warehouse alters a table: its schema changes and the
\* catalog stamps table.modified with the current time.
CatalogChange ==
    /\ changes < MaxChanges
    /\ changes' = changes + 1
    /\ \E x \in AllTables :
          /\ remoteSchema' = [remoteSchema EXCEPT ![x] = @ + 1]
          /\ remoteModified' = [remoteModified EXCEPT ![x] = now]
    /\ quiet' = FALSE
    /\ UNCHANGED <<now, diskVars, pc, frameVars, raisedAt, runs,
                   runLogVars>>
    /\ UNCHANGED genVars

\* The process dies in the middle of get_table_schemas.
Crash ==
    /\ Running
    /\ pc' = "crashed"
    /\ DropFrame
    /\ DropRunLog
    /\ UNCHANGED <<now, catalogVars, diskVars, raisedAt, runs, quiet>>
    /\ UNCHANGED genVars

\* ------------------------------------------------------ get_table_schemas
\* main.py:49-63  the call of get_table_schemas
StartRefresh ==
    /\ ~Running
    /\ runs < MaxRefreshes
    /\ pc' = "list_datasets"
    /\ runs' = runs + 1
    /\ raisedAt' = "none"
    /\ startTime' = now
    /\ wmAtStart' = lastUpdated
    /\ fileAtStart' = file
    /\ due' = {}
    /\ fetched' = {}
    /\ written' = {}
    /\ secondRun' = (pc = "done" /\ quiet)
    /\ quiet' = TRUE
    /\ UNCHANGED <<now, catalogVars, diskVars, frameVars>>
    /\ UNCHANGED genVars

\* main.py:64-67  client.list_datasets()
ListDatasets ==
    /\ pc = "list_datasets"
    /\ \/ Raise("list_datasets") /\ DropRunLog
       \/ /\ pc' = "get_dataset"
          /\ di' = 1
          /\ ti' = 1
          /\ UNCHANGED <<raisedAt, table_last_modified, last_local_update,
                         table_schema, runLogVars>>
    /\ UNCHANGED <<now, catalogVars, diskVars, runs, quiet>>
    /\ UNCHANGED genVars

\* main.py:68-79  client.get_dataset, the dataset folder, client.list_tables;
\* the table loop of a dataset without tables has no iteration
GetDataset ==
    /\ pc = "get_dataset"
    /\ \/ Raise("get_dataset") /\ DropRunLog /\ UNCHANGED folder
       \/ /\ Raise("list_tables")
          /\ DropRunLog
          /\ folder' = folder \cup {CurDataset}
       \/ /\ folder' = folder \cup {CurDataset}
          /\ IF TableOrder(CurDataset) # <<>>
             THEN /\ pc' = "get_table"
                  /\ ti' = 1
                  /\ UNCHANGED <<di, table_last_modified,
                                 last_local_update, table_schema>>
             ELSE NextDataset
          /\ UNCHANGED <<raisedAt, runLogVars>>
    /\ UNCHANGED <<now, catalogVars, file, lastUpdated, runs, quiet>>
    /\ UNCHANGED genVars

\* main.py:81-99  client.get_table, the read of last_updated.pkl and the
\* freshness test
GetTable ==
    /\ pc = "get_table"
    /\ \/ Raise("get_table") /\ DropRunLog
       \/ /\ lastUpdated[CurDataset].kind = "truncated"
          /\ Raise("pickle.load")
          /\ DropRunLog
       \/ /\ lastUpdated[CurDataset].kind # "truncated"
          /\ LET m == remoteModified[CurTable]
                 w == LastLocalUpdate(CurDataset)
                 exists == file[CurTable].kind # "absent"
             IN /\ due' = IF \/ ~exists
                             \/ /\ wmAtStart[CurDataset].kind = "pickle"
                                /\ m > wmAtStart[CurDataset].v
                          THEN due \cup {CurTable}
                          ELSE due
                /\ IF Unchanged(m, w, exists)
                   THEN Advance
                   ELSE /\ pc' = "bf_call"
                        /\ table_last_modified' = m
                        /\ last_local_update' = w
                        /\ UNCHANGED <<di, ti, table_schema>>
                /\ UNCHANGED <<raisedAt, startLog, fetched, written>>
    /\ UNCHANGED <<now, catalogVars, diskVars, runs, quiet>>
    /\ UNCHANGED genVars

\* main.py:101-104  util.query_text and bf_call: the column-schema fetch
BfCall ==
    /\ pc = "bf_call"
    /\ now < MaxTime
    /\ now' = now + 1
    /\ \/ Raise("bf_call") /\ DropRunLog
       \/ /\ table_schema' = remoteSchema[CurTable]
          /\ fetched' = fetched \cup {CurTable}
          /\ pc' = "open_schema"
          /\ UNCHANGED <<raisedAt, di, ti, table_last_modified,
                         last_local_update, startLog, due, written>>
    /\ UNCHANGED <<catalogVars, diskVars, runs, quiet>>
    /\ UNCHANGED genVars

\* main.py:105  open(table_schema_file, "w")
OpenSchemaFile ==
    /\ pc = "open_schema"
    /\ file' = [file EXCEPT ![CurTable] = FileTruncated]
    /\ pc' = "write_schema"
    /\ UNCHANGED <<now, catalogVars, folder, lastUpdated, frameVars,
                   raisedAt, runs, runLogVars, quiet>>
    /\ UNCHANGED genVars

\* main.py:106-109  f.write(json.dumps(table_schema, indent=4)); f.close()
WriteSchemaFile ==
    /\ pc = "write_schema"
    /\ file' = [file EXCEPT ![CurTable] = JsonDoc(table_schema)]
    /\ written' = written \cup {CurTable}
    /\ pc' = "open_last_updated"
    /\ UNCHANGED <<now, catalogVars, folder, lastUpdated, frameVars,
                   raisedAt, runs, startLog, due, fetched, quiet>>
    /\ UNCHANGED genVars

\* main.py:110  open(last_updated_file, 'wb')
OpenLastUpdated ==
    /\ pc = "open_last_updated"
    /\ lastUpdated' = [lastUpdated EXCEPT ![CurDataset] = FileTruncated]
    /\ pc' = "dump_last_updated"
    /\ UNCHANGED <<now, catalogVars, folder, file, frameVars, raisedAt,
                   runs, runLogVars, quiet>>
    /\ UNCHANGED genVars

\* main.py:111-113  pickle.dump(datetime.now(tz=timezone.utc), f); f.close()
DumpLastUpdated ==
    /\ pc = "dump_last_updated"
    /\ lastUpdated' = [lastUpdated EXCEPT ![CurDataset] = Pickled(LastUpdatedTime)]
    /\ Advance
    /\ UNCHANGED <<now, catalogVars, folder, file, raisedAt, runs,
                   runLogVars, quiet>>
    /\ UNCHANGED genVars

Next ==
    \/ Tick
    \/ CatalogChange
    \/ Crash
    \/ StartRefresh
    \/ ListDatasets
    \/ GetDataset
    \/ GetTable
    \/ BfCall
    \/ OpenSchemaFile
    \/ WriteSchemaFile
    \/ OpenLastUpdated
    \/ DumpLastUpdated

Spec == Init /\ [][Next]_vars


\* ======================================================= util.py, prompts
\* main.py:37
ProjectId == "<your-project>"

\* The text an f-string puts in place of {exception}: str(e) is the message
\* of an exception and "None" for None.
FormatExceptionOfLastDryrun(e) ==
    IF lastDryrun.raised.kind = "None" THEN "None" ELSE lastDryrun.raised.msg

FormatException(e) == IF e.kind = "None" THEN "None" ELSE e.msg

\* The text an f-string puts in place of a dict or a list: its repr, which
\* differs for different values.  (A Python dict is taken with the order of
\* its keys: two dicts that compare equal and differ in that order are
\* different values here, as their reprs are different texts.)
Repr(v) == ToString(v)

\* util.py:60-63  the local task of erd_template
ErdTask ==
    "Task: Analyze these queries and describe the relationships between the tables. ..."

\* util.py:58-108  erd_template(project_queries, purpose): each of the two
\* purposes binds prompt; with any other purpose return prompt finds the
\* name unbound
erd_template(project_queries, purpose) ==
    IF purpose = "json"
    THEN << ErdTask,
            "Context: ... Format the output as JSON with a structure that groups relationships ...",
            "The SQL queries are concatenated together. You will find all of the code you need here:",
            Repr(project_queries),
            "Answer:" >>
    ELSE IF purpose = "summary"
    THEN << ErdTask,
            "Context: - Replace any table aliases in the queries to their actual table names. ...",
            "- The SQL queries are concatenated together. You will find all of the code you need here:",
            Repr(project_queries),
            "Answer:" >>
    ELSE Exc("UnboundLocalError")

\* util.py:122-148  query_generation(task, bq_schema, erd_json)
query_generation(task, schema, erd) ==
    << "Task: Generate a BigQuery SQL query to fulfill the following task:",
       task,
       "Context: ... Table Schemas:",
       Repr(schema),
       "ERD Summary:",
       Repr(erd),
       "Your response should be the SQL query and an explanation ..." >>

\* util.py:171-206  the branch taken when dry_run_validate == False
CheckPromptNoError(query, schema, erd, project_id, datasets) ==
    << "Task: Review and revise a SQL query ... (sql)",
       query,
       "Table schemas are provided as a Python dictionary ...",
       Repr(schema),
       "The entity relationship diagram for the datasets as a JSON file ...",
       Repr(erd),
       "Carefully analyze the query and the schema ... project ID",
       project_id,
       "The dataset_id must be one of the following values:",
       Repr(datasets),
       "If a table reference is missing the project_id or dataset_id ..." >>

\* util.py:234  the line that introduces the dry-run exception
ExceptionIntro ==
    "The query dry run returned this exception. Be sure your revised query will resolve this error:"

\* util.py:208-246  the branch taken otherwise
CheckPromptWithError(query, schema, erd, project_id, datasets, exception) ==
    << "Task: Review and revise a SQL query ... (sql)",
       query,
       "Table schemas are provided as a Python dictionary ...",
       Repr(schema),
       "The entity relationship diagram for the datasets as a JSON file ...",
       Repr(erd),
       ExceptionIntro,
       FormatException(exception),
       "Carefully analyze the query and the schema ... project ID",
       project_id,
       "The dataset_id must be one of the following values:",
       Repr(datasets),
       "If a table reference is missing the project_id or dataset_id ..." >>

\* util.py:169-247  query_check: the variant is chosen by the flag alone
query_check(query, schema, erd, project_id, datasets, exception, flag) ==
    IF flag = FALSE
    THEN CheckPromptNoError(query, schema, erd, project_id, datasets)
    ELSE CheckPromptWithError(query, schema, erd, project_id, datasets,
                              exception)

\* util.py:169  the parameters of query_check, and those with a default
QueryCheckParams ==
    << "query", "bq_schema", "erd_json", "project_id", "dataset_list",
       "exception", "dry_run_validate" >>

QueryCheckDefaults == {"dry_run_validate"}

\* Python's binding of positional arguments: the parameters left without a
\* value.  A call with a non-empty result raises TypeError.
MissingArguments(params, defaults, nargs) ==
    {params[i] : i \in (nargs + 1)..Len(params)} \ defaults

\* util.py:151-166  query_dryrun: raised is what client.query / result()
\* raised (None when the dry run succeeded); returns
\* (exception, validation_needed)
query_dryrun(raised) ==
    IF raised.kind = "None" THEN <<None, FALSE>> ELSE <<raised, TRUE>>

\* --------------------------------------------------------- gen inputs
MaxGenRuns == 2

Requests == {"count orders per user"}

\* Texts the generative model may return.
ModelTexts == {"SELECT 1 -- because", "SELECT 2"}

\* What the dry run of a query may raise.
DryRunOutcomes ==
    {None, Exc("400 Unrecognized name: user_id"), Exc("503 Service Unavailable")}

\* ------------------------------------------------------------ extract_sql
\* A file name is the list of parts str.split(".") makes of it.
\* main.py:85-86  <table_id>.json
SchemaFileName(t) == <<t, "json">>

\* main.py:88-89
LastUpdatedName == <<"last_updated", "pkl">>

\* main.py:150
SnapshotName == <<"bq_schema_project", "pkl">>

\* main.py:42  os.path.basename(schema_dir), the name extract_sql computes
\* as the dataset of a file that lies directly in schema_dir
SchemaRoot == "schemas"

\* Text that magika takes for JSON and json.load rejects.
Garbled == [kind |-> "garbled", v |-> 0]

\* Files that may lie in the tree beside those get_table_schemas writes:
\* notes.json directly in schema_dir, an older copy orders.bak.json of a
\* schema file, and a file draft.json that is not valid JSON.
StrayOrder ==
    << [dir |-> SchemaRoot, name |-> <<"notes", "json">>, doc |-> JsonDoc(7)],
       [dir |-> "sales", name |-> <<"orders", "bak", "json">>,
        doc |-> JsonDoc(9)],
       [dir |-> "sales", name |-> <<"draft", "json">>, doc |-> Garbled] >>

StrayFiles == {StrayOrder[i] : i \in 1..Len(StrayOrder)}

\* main.py:133  the files os.walk reports for directory dir that the
\* program itself wrote
OwnFiles(dir) ==
    IF dir = SchemaRoot
    THEN IF snapshot.exists
         THEN << [name |-> SnapshotName, doc |-> Pickled(0)] >>
         ELSE <<>>
    ELSE LET ts == SelectSeq(TableOrder(dir),
                             LAMBDA t : file[<<dir, t>>].kind # "absent")
         IN [i \in 1..Len(ts) |->
                [name |-> SchemaFileName(ts[i]), doc |-> file[<<dir, ts[i]>>]]]
             \o (IF lastUpdated[dir].kind # "absent"
                 THEN << [name |-> LastUpdatedName, doc |-> lastUpdated[dir]] >>
                 ELSE <<>>)

\* main.py:133  the other files os.walk reports for directory dir
StrayListing(dir) ==
    LET ss == SelectSeq(StrayOrder, LAMBDA s : s \in strays /\ s.dir = dir)
    IN [i \in 1..Len(ss) |-> [name |-> ss[i].name, doc |-> ss[i].doc]]

\* main.py:133  the third component of an os.walk triple; the order of the
\* names is that of the directory listing, which nothing fixes
Listing(dir, strayFirst) ==
    IF strayFirst
    THEN StrayListing(dir) \o OwnFiles(dir)
    ELSE OwnFiles(dir) \o StrayListing(dir)

\* main.py:141-142  file_type.output.group: the group magika gives the
\* content (its group for JSON is "code"; an empty file is "inode")
Group(doc) ==
    CASE doc.kind \in {"json", "garbled"} -> "code"
      [] doc.kind = "truncated" -> "inode"
      [] OTHER -> "unknown"

\* main.py:145  json.load returns
Parses(doc) == doc.kind = "json"

\* main.py:141-149  a file enters the result when magika puts it in group
\* "json" or "code" and json.load succeeds
Loads(f) == Group(f) \in {"json", "code"} /\ Parses(f)

\* main.py:148-149  except Exception: pass
Caught(e, acc) == acc

\* main.py:146  bq_schema[dataset][table_name] = schema
Put(m, k, v) == [x \in DOMAIN m \cup {k} |-> IF x = k THEN v ELSE m[x]]

\* main.py:136-149  the loop body for one file f of directory dir; acc is
\* bq_schema so far and the exception that left the function, if any
LoadFile(acc, dir, f) ==
    IF acc.raised # "none" THEN acc
    ELSE IF Group(f.doc) \notin {"json", "code"} THEN acc
    ELSE IF ~Parses(f.doc) THEN Caught("JSONDecodeError", acc)
    ELSE IF dir \notin DOMAIN acc.map THEN Caught("KeyError", acc)
    ELSE [acc EXCEPT !.map[dir] = Put(@, f.name[1], f.doc.v)]

\* main.py:136  for table in tables
RECURSIVE LoadFiles(_, _, _)
LoadFiles(acc, dir, fs) ==
    IF fs = <<>> THEN acc
    ELSE LoadFiles(LoadFile(acc, dir, Head(fs)), dir, Tail(fs))

\* main.py:244-247  the dataset folders os.walk finds
WalkDatasets ==
    SelectSeq(DatasetOrder, LAMBDA d : d \in folder)

\* main.py:133  os.walk goes on to each dataset folder
RECURSIVE WalkDirs(_, _, _)
WalkDirs(acc, ds, strayFirst) ==
    IF ds = <<>> THEN acc
    ELSE WalkDirs(LoadFiles(acc, Head(ds), Listing(Head(ds), strayFirst)),
                  Tail(ds), strayFirst)

\* main.py:130-149  the mapping extract_sql builds from the tree: the walk
\* starts at schema_dir, gives every folder found there an empty entry and
\* loads the files of schema_dir, then those of each folder
ExtractSql(strayFirst) ==
    LET start == [raised |-> "none", map |-> [d \in folder |-> <<>>]]
        atRoot == LoadFiles(start, SchemaRoot, Listing(SchemaRoot, strayFirst))
    IN WalkDirs(atRoot, WalkDatasets, strayFirst)

\* ------------------------------------------------------------ generate_sql
\* main.py:258  the positional arguments generate_sql passes to query_check
GenerateSqlCheckArgs ==
    << generated_query, bq_schema, erd_json, ProjectId, dataset_list >>

GenRaise(e) ==
    /\ gpc' = "raised"
    /\ gRaised' = e

\* main.py:233-251  the call, os.walk, extract_sql and the read of the ERD
GenerateSqlLoad ==
    /\ gpc \in {"idle", "done", "raised"}
    /\ genRuns < MaxGenRuns
    /\ genRuns' = genRuns + 1
    /\ \E r \in Requests : request' = r
    /\ dataset_list' = WalkDatasets
    /\ stages' = <<"DRAFTING">>
    /\ modelCalls' = <<>>
    /\ dryrunCalls' = <<>>
    /\ output' = <<>>
    /\ generated_query' = ""
    /\ \E strayFirst \in BOOLEAN :
          LET run == ExtractSql(strayFirst)
          IN /\ lastExtract' = [called |-> TRUE, strayFirst |-> strayFirst,
                                raised |-> run.raised,
                                result |-> IF run.raised = "none"
                                           THEN run.map ELSE <<>>]
             /\ IF run.raised # "none"
                THEN /\ GenRaise(run.raised)
                     /\ UNCHANGED <<snapshot, bq_schema, erd_json>>
                ELSE /\ snapshot' = [exists |-> TRUE, map |-> run.map]
                     /\ bq_schema' = run.map
                     /\ IF erdFile.kind = "absent"
                        THEN GenRaise("FileNotFoundError") /\ UNCHANGED erd_json
                        ELSE IF erdFile.kind = "malformed"
                             THEN /\ GenRaise("JSONDecodeError")
                                  /\ UNCHANGED erd_json
                             ELSE /\ erd_json' = erdFile.v
                                  /\ gpc' = "drafting"
                                  /\ gRaised' = "none"
    /\ UNCHANGED <<dry_run_validate, erdFile, lastDryrun, lastCheck, strays,
                   tplLog>>
    /\ UNCHANGED refreshVars

\* main.py:252-256  the first gemini_call and the first field of the output
GenerateSqlDraft ==
    /\ gpc = "drafting"
    /\ modelCalls' =
          Append(modelCalls, query_generation(request, bq_schema, erd_json))
    /\ \/ GenRaise("ModelInvocationError")
            /\ UNCHANGED <<generated_query, output>>
       \/ \E text \in ModelTexts :
            /\ generated_query' = text
            /\ output' = ("query_and_explain" :> text)
            /\ gpc' = "revising"
            /\ UNCHANGED gRaised
    /\ UNCHANGED <<dry_run_validate, erdFile, snapshot, request, bq_schema,
                   erd_json, dataset_list, genRuns, dryrunCalls, stages,
                   lastDryrun, lastCheck,
                   strays, lastExtract, tplLog>>
    /\ UNCHANGED refreshVars

\* main.py:257-261  the call of query_check, the second gemini_call and the
\* return
GenerateSqlRevise ==
    /\ gpc = "revising"
    /\ stages' = Append(stages, "REVISING")
    /\ LET args == GenerateSqlCheckArgs
       IN IF MissingArguments(QueryCheckParams, QueryCheckDefaults,
                              Len(args)) # {}
          THEN /\ GenRaise("TypeError")
               /\ UNCHANGED <<modelCalls, output>>
          ELSE /\ modelCalls' =
                     Append(modelCalls,
                            query_check(args[1], args[2], args[3], args[4],
                                        args[5], args[6],
                                        IF Len(args) >= 7 THEN args[7]
                                        ELSE dry_run_validate))
               /\ \/ GenRaise("ModelInvocationError") /\ UNCHANGED output
                  \/ \E text \in ModelTexts :
                       /\ output' = output @@ ("query" :> text)
                       /\ gpc' = "done"
                       /\ UNCHANGED gRaised
    /\ UNCHANGED <<dry_run_validate, erdFile, snapshot, request, bq_schema,
                   erd_json, dataset_list, generated_query, genRuns,
                   dryrunCalls, lastDryrun, lastCheck,
                   strays, lastExtract, tplLog>>
    /\ UNCHANGED refreshVars

\* A caller applies util.query_dryrun to a query.
CallQueryDryrun ==
    /\ \E q \in ModelTexts, raised \in DryRunOutcomes :
          lastDryrun' = [called |-> TRUE, query |-> q, raised |-> raised,
                         result |-> query_dryrun(raised)]
    /\ UNCHANGED <<dry_run_validate, erdFile, snapshot, gpc, request,
                   bq_schema, erd_json, dataset_list, generated_query, output,
                   gRaised, genRuns, modelCalls, dryrunCalls, stages,
                   lastCheck,
                   strays, lastExtract, tplLog>>
    /\ UNCHANGED refreshVars

\* A caller applies util.query_check with every argument, the flag being
\* the module's dry_run_validate (the default) or given explicitly.
CallQueryCheck ==
    /\ \E q \in ModelTexts, e \in DryRunOutcomes,
          flag \in {dry_run_validate, TRUE} :
          lastCheck' = [called |-> TRUE, query |-> q, exception |-> e,
                        flag |-> flag,
                        prompt |-> query_check(q, ExtractSql(FALSE).map, 1,
                                               ProjectId, WalkDatasets, e,
                                               flag)]
    /\ UNCHANGED <<dry_run_validate, erdFile, snapshot, gpc, request,
                   bq_schema, erd_json, dataset_list, generated_query, output,
                   gRaised, genRuns, modelCalls, dryrunCalls, stages,
                   lastDryrun,
                   strays, lastExtract, tplLog>>
    /\ UNCHANGED refreshVars

\* The store in any state refreshes (complete, failed or crashed) leave it
\* in, with or without other files beside those the refresh writes, the ERD
\* file as erd_request or nobody wrote it, and either setting of the flag.
InitGen ==
    /\ RefreshIdle
    /\ GenIdle
    /\ file \in [AllTables -> {FileAbsent, JsonDoc(1), FileTruncated}]
    /\ folder \in SUBSET Datasets
    /\ \A x \in AllTables : file[x].kind # "absent" => x[1] \in folder
    /\ now = 1 + Cardinality({x \in AllTables : file[x].kind # "absent"})
    /\ lastUpdated = [d \in Datasets |-> FileAbsent]
    /\ erdFile \in {ErdAbsent, ErdMalformed, ErdJson(1)}
    /\ dry_run_validate \in BOOLEAN
    /\ strays \in {{}, {s \in StrayFiles :
                               s.dir = SchemaRoot \/ s.dir \in folder}}

NextGen ==
    \/ GenerateSqlLoad
    \/ GenerateSqlDraft
    \/ GenerateSqlRevise
    \/ CallQueryDryrun
    \/ CallQueryCheck

SpecGen == InitGen /\ [][NextGen]_vars

\* ----------------------------------------- the templates, called directly
\* The log keeps at most MaxTemplateCalls calls.
MaxTemplateCalls == 2

\* main.py:176  what bf_call(util.query_text)[0] hands to erd_template
ProjectQueries ==
    {"SELECT * FROM orders JOIN users ON orders.user_id = users.id"}

\* main.py:168  the purpose a caller passes on to erd_template
Purposes == {"json", "summary", "markdown"}

\* main.py:248  a mapping as extract_sql returns it
SchemaMaps == {[sales |-> [orders |-> 1]]}

\* util.py:169  the seventh argument of query_check: left out or given
FlagOmitted == [given |-> FALSE, v |-> FALSE]

FlagGiven(b) == [given |-> TRUE, v |-> b]

\* util.py:169  the value the parameter dry_run_validate takes
FlagValue(a) == IF a.given THEN a.v ELSE dry_run_validate

\* The state other operations change and a body could read: whether the
\* last dry run raised, and the snapshot file of extract_sql.
Observed == [dryrun |-> lastDryrun.raised.kind, snapshot |-> snapshot.exists]

Logged(fn, args, out) ==
    Append(tplLog, [fn |-> fn, args |-> args, out |-> out, seen |-> Observed])

\* Everything but the log of the calls.
templateFrame == <<refreshVars, dry_run_validate, erdFile, snapshot, gpc,
                   request, bq_schema, erd_json, dataset_list,
                   generated_query, output, gRaised, genRuns, modelCalls,
                   dryrunCalls, stages, lastDryrun, lastCheck, strays,
                   lastExtract>>

\* A caller applies util.erd_template.
CallErdTemplate ==
    /\ Len(tplLog) < MaxTemplateCalls
    /\ \E q \in ProjectQueries, purpose \in Purposes :
          tplLog' = Logged("erd_template", <<q, purpose>>,
                           erd_template(q, purpose))
    /\ UNCHANGED templateFrame

\* A caller applies util.query_generation.
CallQueryGeneration ==
    /\ Len(tplLog) < MaxTemplateCalls
    /\ \E task \in Requests, schema \in SchemaMaps :
          tplLog' = Logged("query_generation", <<task, schema, 1>>,
                           query_generation(task, schema, 1))
    /\ UNCHANGED templateFrame

\* A caller applies util.query_check, with or without the seventh argument.
CallQueryCheckLogged ==
    /\ Len(tplLog) < MaxTemplateCalls
    /\ \E q \in {"SELECT 2"}, schema \in SchemaMaps,
          e \in {None, Exc("400 Unrecognized name: user_id")},
          a \in {FlagOmitted, FlagGiven(TRUE)} :
          tplLog' = Logged("query_check",
                           <<q, schema, 1, ProjectId, <<"sales">>, e, a>>,
                           query_check(q, schema, 1, ProjectId, <<"sales">>,
                                       e, FlagValue(a)))
    /\ UNCHANGED templateFrame

\* A store after a complete refresh, the ERD file written, either setting of
\* the flag.  Between the calls of the templates other callers run
\* query_dryrun and generate_sql walks the tree and writes the snapshot.
InitTemplates ==
    /\ InitGen
    /\ folder = Datasets
    /\ \A x \in AllTables : file[x].kind = "json"
    /\ strays = {}
    /\ erdFile = ErdJson(1)

NextTemplates ==
    \/ CallErdTemplate
    \/ CallQueryGeneration
    \/ CallQueryCheckLogged
    \/ CallQueryDryrun
    \/ GenerateSqlLoad

SpecTemplates == InitTemplates /\ [][NextTemplates]_vars

\* ============================================================== claims
\* Positions at which the running call has decided to fetch the current
\* table and has not yet replaced last_updated.pkl.
FetchPcs == {"bf_call", "open_schema", "write_schema", "open_last_updated"}

\* C1 (as claimed): when a refresh returns normally, every table it saw with
\* a remote last-modified time newer than the watermark the dataset had when
\* the refresh began, or with no local schema file, has been fetched and its
\* file rewritten in that refresh, whatever was re-fetched before it.
C1_EveryDueTableRewritten ==
    pc = "done" => due \subseteq written

C3_WatermarkIsRefreshStart ==
    pc = "done" => \A d \in Datasets : lastUpdated[d] = Pickled(startTime)

\* C4: with a catalog that has not changed since the previous refresh began,
\* and that refresh returned normally, the next refresh fetches no column
\* schema, leaves every table file as it was and creates nothing.
C4_IdempotentRefresh ==
    (secondRun /\ quiet) =>
        /\ pc \notin FetchPcs
        /\ pc # "dump_last_updated"
        /\ fetched = {}
        /\ written = {}
        /\ file = fileAtStart
        /\ folder = Datasets

\* C4 witness: such a second refresh has returned, over a fully cached store.
C4_Witness ==
    /\ secondRun
    /\ quiet
    /\ pc = "done"
    /\ \A x \in AllTables : file[x] = JsonDoc(remoteSchema[x])

\* C5 (as claimed): an error of the catalog for one table (get_table or the
\* column-schema fetch) never ends the refresh with an exception.
C5_TableErrorSwallowed ==
    ~(pc = "raised" /\ raisedAt \in {"get_table", "bf_call"})

\* C6 (as claimed): after a crash at any point of a refresh every existing
\* table schema file holds a complete document.
C6_CrashNeverCorrupts ==
    pc = "crashed" => \A x \in AllTables : file[x].kind \in {"absent", "json"}

\* A check prompt has the section that reports a dry-run exception.
HasExceptionSection(prompt) ==
    \E i \in 1..Len(prompt) : prompt[i] = ExceptionIntro

\* C7 (as claimed): generate_sql's call of the check-prompt builder supplies
\* every input it needs, and a check prompt holds the exception section
\* exactly when validation was enabled and produced an exception.
C7_CheckPromptFollowsValidation ==
    /\ gRaised # "TypeError"
    /\ lastCheck.called =>
          (HasExceptionSection(lastCheck.prompt)
              <=> (lastCheck.flag /\ lastCheck.exception.kind # "None"))

\* C8 (as claimed): with the schema tree and the ERD readable and a model
\* that does not fail, generate_sql does not raise; when it returns it has
\* called the model twice and its output holds the two texts unchanged.
C8_TwoPassesReachDone ==
    /\ gpc = "raised" =>
          gRaised \in {"FileNotFoundError", "JSONDecodeError",
                       "ModelInvocationError"}
    /\ gpc = "done" =>
          /\ Len(modelCalls) = 2
          /\ output["query_and_explain"] = generated_query
          /\ output["query"] \in ModelTexts

\* C9 (as claimed): the model is never called unless the ERD was read and
\* the schema map holds at least one table schema.
C9_NoPromptWithoutPrerequisites ==
    Len(modelCalls) > 0 =>
        /\ erdFile.kind = "json"
        /\ \E d \in DOMAIN bq_schema : DOMAIN bq_schema[d] # {}

\* C10 (as claimed): with the dry-run flag set, generate_sql has submitted
\* the draft to the dry run before it enters REVISING; and query_dryrun
\* returns (exception, True) on a failure and (None, False) on success.
C10_DryRunBeforeRevising ==
    /\ (dry_run_validate /\ Len(stages) >= 2) =>
          dryrunCalls = <<generated_query>>
    /\ lastDryrun.called =>
          /\ lastDryrun.result[2] = (lastDryrun.raised.kind # "None")
          /\ lastDryrun.result[1] = lastDryrun.raised

\* C11 (extract_sql): once extract_sql has run it has not raised; every file
\* of a dataset folder that magika puts in group json/code and that json.load
\* parses is in the result under result[dataset][table] with its content,
\* table being the file name up to the first dot; a file that is not so
\* classified or does not parse has put nothing into the result (its table
\* name is a key only when another file of the folder with that name
\* loaded); and the snapshot on disk equals the returned mapping.
C11_EveryParsedFileAppears ==
    lastExtract.called =>
        /\ lastExtract.raised = "none"
        /\ \A d \in folder :
              LET fs == Listing(d, lastExtract.strayFirst)
                  parsed == {i \in 1..Len(fs) : fs[i].doc.kind = "json"}
              IN /\ d \in DOMAIN lastExtract.result
                 /\ \A i \in parsed :
                       /\ fs[i].name[1] \in DOMAIN lastExtract.result[d]
                       /\ lastExtract.result[d][fs[i].name[1]] = fs[i].doc.v
                 /\ \A i \in (1..Len(fs)) \ parsed :
                       fs[i].name[1] \in DOMAIN lastExtract.result[d]
                           => \E j \in parsed : fs[j].name[1] = fs[i].name[1]
        /\ snapshot = [exists |-> TRUE, map |-> lastExtract.result]

====
